---------------------------- MODULE Spec2Model ----------------------------
(***************************************************************************)
(* Model of package signature (src/signature/signature.go): the           *)
(* MessageBird request-signature validator.                               *)
(*                                                                         *)
(* Strings and byte slices are sequences of byte values 0..255.  An       *)
(* instant or a duration is a count of nanoseconds, as in Go, written as  *)
(* a pair <<s, n>> of whole seconds and 0 <= n < 10^9 further             *)
(* nanoseconds (s * 10^9 + n nanoseconds; instants count from the Unix    *)
(* epoch).                                                                 *)
(*                                                                         *)
(* SHA-256 (FIPS 180-4) and HMAC (RFC 2104) are computed bit for bit; a   *)
(* 32-bit word is a pair of 16-bit halves <<hi, lo>>.                     *)
(***************************************************************************)
EXTENDS Integers, Sequences, FiniteSets

(***************************************************************************)
(* Bytes                                                                   *)
(***************************************************************************)

\* The byte value of a character (ASCII).
Ord(c) ==
    CASE c = "NUL" -> 0   [] c = "LF" -> 10  [] c = "CR" -> 13  [] c = "SP" -> 32
      [] c = "#" -> 35    [] c = "%" -> 37   [] c = "&" -> 38   [] c = "+" -> 43
      [] c = "-" -> 45    [] c = "." -> 46   [] c = "/" -> 47   [] c = "0" -> 48
      [] c = "1" -> 49    [] c = "2" -> 50   [] c = "3" -> 51   [] c = "4" -> 52
      [] c = "5" -> 53    [] c = "6" -> 54   [] c = "7" -> 55   [] c = "8" -> 56
      [] c = "9" -> 57    [] c = ":" -> 58   [] c = ";" -> 59   [] c = "=" -> 61
      [] c = "?" -> 63    [] c = "A" -> 65   [] c = "B" -> 66   [] c = "F" -> 70
      [] c = "Z" -> 90    [] c = "_" -> 95   [] c = "a" -> 97   [] c = "b" -> 98
      [] c = "c" -> 99    [] c = "f" -> 102  [] c = "k" -> 107  [] c = "s" -> 115
      [] c = "x" -> 120   [] c = "z" -> 122  [] c = "~" -> 126  [] c = "DEL" -> 127
      [] c = "U" -> 85    [] c = "h" -> 104  [] c = "n" -> 110  [] c = "o" -> 111
      [] c = "t" -> 116   [] c = "w" -> 119  [] c = "!" -> 33

\* The byte string of a sequence of characters: Str(<<"a", "=", "1">>) is "a=1".
Str(cs) == [i \in 1..Len(cs) |-> Ord(cs[i])]

Max(a, b) == IF a >= b THEN a ELSE b

\* n zero bytes.
Zeros(n) == [i \in 1..Max(n, 0) |-> 0]

\* bytes.Compare / Go's string ordering: a < b, byte by byte.
RECURSIVE Less(_, _)
Less(a, b) ==
    IF b = <<>> THEN FALSE
    ELSE IF a = <<>> THEN TRUE
    ELSE IF Head(a) # Head(b) THEN Head(a) < Head(b)
    ELSE Less(Tail(a), Tail(b))

\* strings.Cut(s, sep) for a one-byte separator: the part before the first
\* sep and the part after it; without sep, all of s and the empty string.
RECURSIVE IndexByte(_, _, _)
IndexByte(s, c, i) ==
    IF i > Len(s) THEN 0
    ELSE IF s[i] = c THEN i
    ELSE IndexByte(s, c, i + 1)

Contains(s, c) == IndexByte(s, c, 1) # 0

Cut(s, c) ==
    LET i == IndexByte(s, c, 1)
    IN  IF i = 0 THEN [before |-> s, after |-> <<>>, found |-> FALSE]
        ELSE [before |-> SubSeq(s, 1, i - 1),
              after  |-> SubSeq(s, i + 1, Len(s)),
              found  |-> TRUE]

(***************************************************************************)
(* strconv.ParseInt(s, 10, 64) and stringToTime                            *)
(***************************************************************************)

IsDigit(c) == c >= 48 /\ c <= 57

RECURSIVE StripZeros(_)
StripZeros(s) ==
    IF s # <<>> /\ Head(s) = 48 THEN StripZeros(Tail(s)) ELSE s

\* The digits of 2^63 - 1 and of 2^63, the largest magnitudes of an int64.
MaxInt64Digits == Str(<<"9","2","2","3","3","7","2","0","3","6","8","5","4","7","7","5","8","0","7">>)
MinInt64Digits == Str(<<"9","2","2","3","3","7","2","0","3","6","8","5","4","7","7","5","8","0","8">>)

\* Whether the magnitude written by the digits ds exceeds the one written by lim.
DigitsExceed(ds, lim) ==
    LET d == StripZeros(ds)
    IN  Len(d) > Len(lim) \/ (Len(d) = Len(lim) /\ Less(lim, d))

RECURSIVE DigitsValue(_, _)
DigitsValue(ds, acc) ==
    IF ds = <<>> THEN acc
    ELSE DigitsValue(Tail(ds), acc * 10 + (Head(ds) - 48))

\* strconv.ParseInt(s, 10, 64): an optional sign, then one or more decimal
\* digits and nothing else; a value outside int64 is a range error.
ParseInt(s) ==
    LET neg    == s # <<>> /\ Head(s) = 45
        signed == s # <<>> /\ (Head(s) = 43 \/ Head(s) = 45)
        ds     == IF signed THEN Tail(s) ELSE s
    IN  IF ds = <<>> \/ \E i \in 1..Len(ds) : ~IsDigit(ds[i])
          THEN [ok |-> FALSE, val |-> 0]
        ELSE IF DigitsExceed(ds, IF neg THEN MinInt64Digits ELSE MaxInt64Digits)
          THEN [ok |-> FALSE, val |-> 0]
        ELSE [ok |-> TRUE,
              val |-> IF neg THEN -DigitsValue(ds, 0) ELSE DigitsValue(ds, 0)]

(***************************************************************************)
(* package time                                                            *)
(***************************************************************************)

\* time.Second, in nanoseconds.
NanosPerSecond == 1000000000

\* The duration of s seconds and n nanoseconds, n of either sign and below
\* two seconds in size.
Duration(s, n) == <<s + n \div NanosPerSecond, n % NanosPerSecond>>

\* t.Add(d), and the sum of two durations.
Add(t, d) == Duration(t[1] + d[1], t[2] + d[2])

\* -d
Neg(d) == Duration(0 - d[1], 0 - d[2])

\* t.Sub(u), the duration t - u.
Sub(t, u) == Add(t, Neg(u))

\* d < e
Before(d, e) == d[1] < e[1] \/ (d[1] = e[1] /\ d[2] < e[2])

\* d / 2 for d >= 0: an odd number of nanoseconds loses one.
HalfOfPositive(d) == <<d[1] \div 2, ((d[1] % 2) * NanosPerSecond + d[2]) \div 2>>

\* d / 2, Go's integer division, which truncates toward zero.
Half(d) == IF d[1] < 0 THEN Neg(HalfOfPositive(Neg(d))) ELSE HalfOfPositive(d)

\* stringToTime: time.Unix(sec, 0), the instant of a Unix timestamp in
\* seconds.
stringToTime(s) ==
    LET p == ParseInt(s)
    IN  [ok |-> p.ok, t |-> Duration(p.val, 0)]

(***************************************************************************)
(* encoding/base64, StdEncoding                                            *)
(***************************************************************************)

\* The character of a 6-bit value.
B64Char(v) ==
    IF v < 26 THEN 65 + v
    ELSE IF v < 52 THEN 97 + (v - 26)
    ELSE IF v < 62 THEN 48 + (v - 52)
    ELSE IF v = 62 THEN 43
    ELSE 47

\* The 6-bit value of a character, -1 for a character outside the alphabet.
B64Val(c) ==
    IF c >= 65 /\ c <= 90 THEN c - 65
    ELSE IF c >= 97 /\ c <= 122 THEN c - 97 + 26
    ELSE IF c >= 48 /\ c <= 57 THEN c - 48 + 52
    ELSE IF c = 43 THEN 62
    ELSE IF c = 47 THEN 63
    ELSE -1

\* base64.StdEncoding.EncodeToString: three bytes to four characters, the
\* last group padded with '='.
RECURSIVE B64Encode(_)
B64Encode(b) ==
    IF b = <<>> THEN <<>>
    ELSE IF Len(b) = 1 THEN
        << B64Char(b[1] \div 4), B64Char((b[1] % 4) * 16), 61, 61 >>
    ELSE IF Len(b) = 2 THEN
        << B64Char(b[1] \div 4),
           B64Char((b[1] % 4) * 16 + b[2] \div 16),
           B64Char((b[2] % 16) * 4), 61 >>
    ELSE
        << B64Char(b[1] \div 4),
           B64Char((b[1] % 4) * 16 + b[2] \div 16),
           B64Char((b[2] % 16) * 4 + b[3] \div 64),
           B64Char(b[3] % 64) >> \o B64Encode(SubSeq(b, 4, Len(b)))

\* The decoder skips '\r' and '\n' wherever they stand.
NotNewline(c) == c # 10 /\ c # 13
DropNewlines(s) == SelectSeq(s, NotNewline)

\* The bytes of one quantum of n (2, 3 or 4) characters.  Bits left over in
\* the last character are dropped without a check (StdEncoding is not Strict).
B64Quantum(q, n) ==
    LET v1 == B64Val(q[1])
        v2 == B64Val(q[2])
        v3 == IF n >= 3 THEN B64Val(q[3]) ELSE 0
        v4 == IF n >= 4 THEN B64Val(q[4]) ELSE 0
        b1 == v1 * 4 + v2 \div 16
        b2 == (v2 % 16) * 16 + v3 \div 4
        b3 == (v3 % 4) * 64 + v4
    IN  IF n = 2 THEN <<b1>> ELSE IF n = 3 THEN <<b1, b2>> ELSE <<b1, b2, b3>>

\* Quanta of four characters; padding only at the very end, as "xx==" or
\* "xxx="; anything else is a CorruptInputError.
RECURSIVE B64DecodeQuanta(_)
B64DecodeQuanta(s) ==
    IF s = <<>> THEN [ok |-> TRUE, val |-> <<>>]
    ELSE IF Len(s) < 4 THEN [ok |-> FALSE, val |-> <<>>]
    ELSE
        LET n == IF B64Val(s[1]) < 0 THEN 0
                 ELSE IF B64Val(s[2]) < 0 THEN 1
                 ELSE IF B64Val(s[3]) < 0 THEN 2
                 ELSE IF B64Val(s[4]) < 0 THEN 3
                 ELSE 4
        IN  IF n = 4 THEN
                LET rest == B64DecodeQuanta(SubSeq(s, 5, Len(s)))
                IN  IF rest.ok
                      THEN [ok |-> TRUE, val |-> B64Quantum(s, 4) \o rest.val]
                      ELSE [ok |-> FALSE, val |-> <<>>]
            ELSE IF n = 3 /\ s[4] = 61 /\ Len(s) = 4
              THEN [ok |-> TRUE, val |-> B64Quantum(s, 3)]
            ELSE IF n = 2 /\ s[3] = 61 /\ s[4] = 61 /\ Len(s) = 4
              THEN [ok |-> TRUE, val |-> B64Quantum(s, 2)]
            ELSE [ok |-> FALSE, val |-> <<>>]

\* base64.StdEncoding.DecodeString.
B64Decode(s) == B64DecodeQuanta(DropNewlines(s))


(***************************************************************************)
(* net/url: Parse, URL.Query (ParseQuery), Values.Encode                   *)
(***************************************************************************)

IsHex(c) ==
    \/ c >= 48 /\ c <= 57
    \/ c >= 97 /\ c <= 102
    \/ c >= 65 /\ c <= 70

UnHex(c) ==
    IF c >= 48 /\ c <= 57 THEN c - 48
    ELSE IF c >= 97 /\ c <= 102 THEN c - 97 + 10
    ELSE c - 65 + 10

\* upperhex[n]
UpperHex(n) == IF n < 10 THEN 48 + n ELSE 65 + (n - 10)

IsAlnum(c) ==
    \/ c >= 48 /\ c <= 57
    \/ c >= 65 /\ c <= 90
    \/ c >= 97 /\ c <= 122

\* shouldEscape(c, encodeQueryComponent): everything but the unreserved
\* characters (letters, digits, '-', '_', '.', '~') is escaped.
ShouldEscape(c) == ~(IsAlnum(c) \/ c \in {45, 95, 46, 126})

\* url.QueryEscape: a space becomes '+', an escaped byte "%XX" in upper case.
RECURSIVE QueryEscape(_)
QueryEscape(s) ==
    IF s = <<>> THEN <<>>
    ELSE LET c == Head(s)
         IN  (IF c = 32 THEN <<43>>
              ELSE IF ShouldEscape(c)
                THEN <<37, UpperHex(c \div 16), UpperHex(c % 16)>>
              ELSE <<c>>) \o QueryEscape(Tail(s))

\* The first pass of url.unescape: every '%' is followed by two hex digits.
RECURSIVE EscapesValid(_)
EscapesValid(s) ==
    IF s = <<>> THEN TRUE
    ELSE IF Head(s) = 37 THEN
        /\ Len(s) >= 3
        /\ IsHex(s[2])
        /\ IsHex(s[3])
        /\ EscapesValid(SubSeq(s, 4, Len(s)))
    ELSE EscapesValid(Tail(s))

\* The second pass: "%XX" to its byte and, in a query component, '+' to a
\* space.
RECURSIVE Unescaped(_, _)
Unescaped(s, plusIsSpace) ==
    IF s = <<>> THEN <<>>
    ELSE IF Head(s) = 37
      THEN <<UnHex(s[2]) * 16 + UnHex(s[3])>>
           \o Unescaped(SubSeq(s, 4, Len(s)), plusIsSpace)
    ELSE IF Head(s) = 43 /\ plusIsSpace
      THEN <<32>> \o Unescaped(Tail(s), plusIsSpace)
    ELSE <<Head(s)>> \o Unescaped(Tail(s), plusIsSpace)

\* url.QueryUnescape
QueryUnescape(s) ==
    IF EscapesValid(s) THEN [ok |-> TRUE, val |-> Unescaped(s, TRUE)]
    ELSE [ok |-> FALSE, val |-> <<>>]

\* stringContainsCTLByte: a byte below ' ' or 0x7f.
ContainsCTLByte(s) == \E i \in 1..Len(s) : s[i] < 32 \/ s[i] = 127

\* url.Parse of a URL that starts with '?' (line 87 passes "?" + rqp): the
\* fragment is split off at the first '#', a control byte before it or a
\* malformed escape in it is an error, and RawQuery is what follows the
\* first '?'.
urlParse(rawURL) ==
    LET f == Cut(rawURL, 35)
        q == Cut(f.before, 63)
    IN  IF ContainsCTLByte(f.before) THEN [ok |-> FALSE, RawQuery |-> <<>>]
        ELSE IF f.found /\ ~EscapesValid(f.after) THEN [ok |-> FALSE, RawQuery |-> <<>>]
        ELSE [ok |-> TRUE, RawQuery |-> q.after]

\* The empty url.Values.
EmptyValues == [k \in {} |-> <<>>]

\* m[key] = append(m[key], value)
ValuesAdd(m, key, value) ==
    IF key \in DOMAIN m THEN [m EXCEPT ![key] = Append(@, value)]
    ELSE [k \in DOMAIN m \cup {key} |-> IF k = key THEN <<value>> ELSE m[k]]

\* url.parseQuery: the pieces between '&'; a piece with a ';', an empty piece
\* and a piece whose key or value does not unescape are skipped (URL.Query
\* drops the error).
RECURSIVE parseQuery(_, _)
parseQuery(m, query) ==
    IF query = <<>> THEN m
    ELSE
        LET c    == Cut(query, 38)
            kv   == Cut(c.before, 61)
            key  == QueryUnescape(kv.before)
            val  == QueryUnescape(kv.after)
        IN  IF Contains(c.before, 59) \/ c.before = <<>> \/ ~key.ok \/ ~val.ok
              THEN parseQuery(m, c.after)
              ELSE parseQuery(ValuesAdd(m, key.val, val.val), c.after)

\* URL.Query()
Query(u) == parseQuery(EmptyValues, u.RawQuery)

\* The smallest key of a non-empty set, in string order.
MinKey(ks) == CHOOSE k \in ks : \A j \in ks \ {k} : Less(k, j)

\* "key=v1&key=v2" for the values of one key, in the order they were added.
RECURSIVE EncodeKey(_, _)
EncodeKey(key, vs) ==
    IF vs = <<>> THEN <<>>
    ELSE QueryEscape(key) \o <<61>> \o QueryEscape(Head(vs))
         \o (IF Tail(vs) = <<>> THEN <<>> ELSE <<38>> \o EncodeKey(key, Tail(vs)))

RECURSIVE EncodeKeys(_, _)
EncodeKeys(m, ks) ==
    IF ks = {} THEN <<>>
    ELSE LET k == MinKey(ks)
         IN  EncodeKey(k, m[k])
             \o (IF ks = {k} THEN <<>> ELSE <<38>> \o EncodeKeys(m, ks \ {k}))

\* Values.Encode: "URL encoded" form sorted by key.
Encode(m) == EncodeKeys(m, DOMAIN m)

(***************************************************************************)
(* crypto/sha256 and crypto/hmac                                           *)
(***************************************************************************)

\* sha256.Size and sha256.BlockSize
Size == 32
BlockSize == 64

\* a ^ b and a & b of two 4-bit values a and b, at index 16 * a + b + 1.
XorNibble ==
  <<
     0,  1,  2,  3,  4,  5,  6,  7,  8,  9, 10, 11, 12, 13, 14, 15,
     1,  0,  3,  2,  5,  4,  7,  6,  9,  8, 11, 10, 13, 12, 15, 14,
     2,  3,  0,  1,  6,  7,  4,  5, 10, 11,  8,  9, 14, 15, 12, 13,
     3,  2,  1,  0,  7,  6,  5,  4, 11, 10,  9,  8, 15, 14, 13, 12,
     4,  5,  6,  7,  0,  1,  2,  3, 12, 13, 14, 15,  8,  9, 10, 11,
     5,  4,  7,  6,  1,  0,  3,  2, 13, 12, 15, 14,  9,  8, 11, 10,
     6,  7,  4,  5,  2,  3,  0,  1, 14, 15, 12, 13, 10, 11,  8,  9,
     7,  6,  5,  4,  3,  2,  1,  0, 15, 14, 13, 12, 11, 10,  9,  8,
     8,  9, 10, 11, 12, 13, 14, 15,  0,  1,  2,  3,  4,  5,  6,  7,
     9,  8, 11, 10, 13, 12, 15, 14,  1,  0,  3,  2,  5,  4,  7,  6,
    10, 11,  8,  9, 14, 15, 12, 13,  2,  3,  0,  1,  6,  7,  4,  5,
    11, 10,  9,  8, 15, 14, 13, 12,  3,  2,  1,  0,  7,  6,  5,  4,
    12, 13, 14, 15,  8,  9, 10, 11,  4,  5,  6,  7,  0,  1,  2,  3,
    13, 12, 15, 14,  9,  8, 11, 10,  5,  4,  7,  6,  1,  0,  3,  2,
    14, 15, 12, 13, 10, 11,  8,  9,  6,  7,  4,  5,  2,  3,  0,  1,
    15, 14, 13, 12, 11, 10,  9,  8,  7,  6,  5,  4,  3,  2,  1,  0
  >>

AndNibble ==
  <<
     0,  0,  0,  0,  0,  0,  0,  0,  0,  0,  0,  0,  0,  0,  0,  0,
     0,  1,  0,  1,  0,  1,  0,  1,  0,  1,  0,  1,  0,  1,  0,  1,
     0,  0,  2,  2,  0,  0,  2,  2,  0,  0,  2,  2,  0,  0,  2,  2,
     0,  1,  2,  3,  0,  1,  2,  3,  0,  1,  2,  3,  0,  1,  2,  3,
     0,  0,  0,  0,  4,  4,  4,  4,  0,  0,  0,  0,  4,  4,  4,  4,
     0,  1,  0,  1,  4,  5,  4,  5,  0,  1,  0,  1,  4,  5,  4,  5,
     0,  0,  2,  2,  4,  4,  6,  6,  0,  0,  2,  2,  4,  4,  6,  6,
     0,  1,  2,  3,  4,  5,  6,  7,  0,  1,  2,  3,  4,  5,  6,  7,
     0,  0,  0,  0,  0,  0,  0,  0,  8,  8,  8,  8,  8,  8,  8,  8,
     0,  1,  0,  1,  0,  1,  0,  1,  8,  9,  8,  9,  8,  9,  8,  9,
     0,  0,  2,  2,  0,  0,  2,  2,  8,  8, 10, 10,  8,  8, 10, 10,
     0,  1,  2,  3,  0,  1,  2,  3,  8,  9, 10, 11,  8,  9, 10, 11,
     0,  0,  0,  0,  4,  4,  4,  4,  8,  8,  8,  8, 12, 12, 12, 12,
     0,  1,  0,  1,  4,  5,  4,  5,  8,  9,  8,  9, 12, 13, 12, 13,
     0,  0,  2,  2,  4,  4,  6,  6,  8,  8, 10, 10, 12, 12, 14, 14,
     0,  1,  2,  3,  4,  5,  6,  7,  8,  9, 10, 11, 12, 13, 14, 15
  >>

\* a ^ b and a & b of bytes and of 16-bit values.
Xor8(a, b) ==
    16 * XorNibble[16 * (a \div 16) + (b \div 16) + 1]
      + XorNibble[16 * (a % 16) + (b % 16) + 1]
And8(a, b) ==
    16 * AndNibble[16 * (a \div 16) + (b \div 16) + 1]
      + AndNibble[16 * (a % 16) + (b % 16) + 1]
Xor16(a, b) == 256 * Xor8(a \div 256, b \div 256) + Xor8(a % 256, b % 256)
And16(a, b) == 256 * And8(a \div 256, b \div 256) + And8(a % 256, b % 256)

\* uint32 arithmetic: x ^ y, x & y, ^x, x + y (modulo 2^32),
\* bits.RotateLeft32(x, -n) and x >> n (0 < n < 16).
Xor32(x, y) == <<Xor16(x[1], y[1]), Xor16(x[2], y[2])>>
And32(x, y) == <<And16(x[1], y[1]), And16(x[2], y[2])>>
Not32(x) == <<65535 - x[1], 65535 - x[2]>>
Add32(x, y) ==
    LET lo == x[2] + y[2]
    IN  <<(x[1] + y[1] + lo \div 65536) % 65536, lo % 65536>>
RotateRight(x, n) ==
    LET hi == IF n < 16 THEN x[1] ELSE x[2]
        lo == IF n < 16 THEN x[2] ELSE x[1]
        p  == 2 ^ (n % 16)
        q  == 65536 \div p
    IN  <<hi \div p + (lo % p) * q, lo \div p + (hi % p) * q>>
ShiftRight(x, n) ==
    LET p == 2 ^ n
        q == 65536 \div p
    IN  <<x[1] \div p, x[2] \div p + (x[1] % p) * q>>

\* The round constants _K of sha256block.go.
K256 ==
  <<
    <<17034, 12184>>, <<28983, 17553>>, <<46528, 64463>>, <<59829, 56229>>,
    <<14678, 49755>>, <<23025, 4593>>, <<37439, 33444>>, <<43804, 24277>>,
    <<55303, 43672>>, <<4739, 23297>>, <<9265, 34238>>, <<21772, 32195>>,
    <<29374, 23924>>, <<32990, 45566>>, <<39900, 1703>>, <<49563, 61812>>,
    <<58523, 27073>>, <<61374, 18310>>, <<4033, 40390>>, <<9228, 41420>>,
    <<11753, 11375>>, <<19060, 33962>>, <<23728, 43484>>, <<30457, 35034>>,
    <<38974, 20818>>, <<43057, 50797>>, <<45059, 10184>>, <<48985, 32711>>,
    <<50912, 3059>>, <<54695, 37191>>, <<1738, 25425>>, <<5161, 10599>>,
    <<10167, 2693>>, <<11803, 8504>>, <<19756, 28156>>, <<21304, 3347>>,
    <<25866, 29524>>, <<30314, 2747>>, <<33218, 51502>>, <<37490, 11397>>,
    <<41663, 59553>>, <<43034, 26187>>, <<49739, 35696>>, <<51052, 20899>>,
    <<53650, 59417>>, <<54937, 1572>>, <<62478, 13701>>, <<4202, 41072>>,
    <<6564, 49430>>, <<7735, 27656>>, <<10056, 30540>>, <<13488, 48309>>,
    <<14620, 3251>>, <<20184, 43594>>, <<23452, 51791>>, <<26670, 28659>>,
    <<29839, 33518>>, <<30885, 25455>>, <<33992, 30740>>, <<36039, 520>>,
    <<37054, 65530>>, <<42064, 27883>>, <<48889, 41975>>, <<50801, 30962>>
  >>

\* The initial hash value init0 .. init7 of sha256.go.
InitialHash ==
  <<
    <<27145, 58983>>, <<47975, 44677>>, <<15470, 62322>>, <<42319, 62778>>,
    <<20750, 21119>>, <<39685, 26764>>, <<8067, 55723>>, <<23520, 52505>>
  >>

\* The big-endian word of p[j .. j+3].
Word(p, j) == <<256 * p[j] + p[j + 1], 256 * p[j + 2] + p[j + 3]>>

\* The message schedule: w[i] for i > 16, appended to w[1 .. i-1].
Extend(w) ==
    LET i  == Len(w) + 1
        v1 == w[i - 2]
        t1 == Xor32(Xor32(RotateRight(v1, 17), RotateRight(v1, 19)), ShiftRight(v1, 10))
        v2 == w[i - 15]
        t2 == Xor32(Xor32(RotateRight(v2, 7), RotateRight(v2, 18)), ShiftRight(v2, 3))
    IN  Append(w, Add32(Add32(t1, w[i - 7]), Add32(t2, w[i - 16])))

\* The schedule w extended to n words (by halves, so that the evaluation
\* does not nest n deep).
RECURSIVE Schedule(_, _)
Schedule(w, n) ==
    IF Len(w) >= n THEN w
    ELSE IF Len(w) = n - 1 THEN Extend(w)
    ELSE Schedule(Schedule(w, (Len(w) + n) \div 2), n)

\* Round i of the compression: the working variables a .. h after it.
Round(s, w, i) ==
    LET a == s[1]  b == s[2]  c == s[3]  d == s[4]
        e == s[5]  f == s[6]  g == s[7]  h == s[8]
        t1 == Add32(Add32(Add32(h, Xor32(Xor32(RotateRight(e, 6), RotateRight(e, 11)),
                                          RotateRight(e, 25))),
                          Xor32(And32(e, f), And32(Not32(e), g))),
                    Add32(K256[i], w[i]))
        t2 == Add32(Xor32(Xor32(RotateRight(a, 2), RotateRight(a, 13)), RotateRight(a, 22)),
                    Xor32(Xor32(And32(a, b), And32(a, c)), And32(b, c)))
    IN  <<Add32(t1, t2), a, b, c, Add32(d, t1), e, f, g>>

\* Rounds lo .. hi (by halves; the first half is evaluated, in Len(s),
\* before the second is entered).
RECURSIVE Rounds(_, _, _, _)
Rounds(s, w, lo, hi) ==
    IF Len(s) = 8 /\ lo < hi
      THEN LET mid == (lo + hi) \div 2
           IN  Rounds(Rounds(s, w, lo, mid), w, mid + 1, hi)
      ELSE Round(s, w, lo)

\* block(dig, p): the hash value h after the blocks of p.
RECURSIVE block(_, _)
block(h, p) ==
    IF p = <<>> THEN h
    ELSE LET w == Schedule([j \in 1..16 |-> Word(p, 4 * j - 3)] \o <<>>, 64)
             s == Rounds(h, w, 1, 64)
         IN  block([j \in 1..8 |-> Add32(h[j], s[j])] \o <<>>,
                   SubSeq(p, BlockSize + 1, Len(p)))

\* The message padded: a 1 bit, zero bits, and the length in bits as a
\* 64-bit big-endian number (messages here are shorter than 2^28 bytes).
Padded(b) ==
    LET n    == Len(b)
        bits == 8 * n
    IN  b \o <<128>> \o Zeros((55 - n) % BlockSize) \o <<0, 0, 0, 0>>
          \o <<bits \div 16777216, (bits \div 65536) % 256, (bits \div 256) % 256,
               bits % 256>>

\* sha256.Sum256: the SHA-256 digest of b, Size bytes.
Sha256(b) ==
    LET h == block(InitialHash, Padded(b))
    IN  [i \in 1..Size |->
           LET half == h[(i + 3) \div 4][IF (i - 1) % 4 < 2 THEN 1 ELSE 2]
           IN  IF i % 2 = 1 THEN half \div 256 ELSE half % 256] \o <<>>

\* hmac.New: a key longer than the block is hashed, and the key is
\* zero-padded to the block size.
KeyBlock(key) ==
    LET k == IF Len(key) > BlockSize THEN Sha256(key) ELSE key
    IN  k \o Zeros(BlockSize - Len(k))

\* hMACSHA256: HMAC-SHA256 of message under key,
\* H((K xor opad) || H((K xor ipad) || message)).
hMACSHA256(message, key) ==
    LET k    == KeyBlock(key)
        ipad == [i \in 1..BlockSize |-> Xor8(k[i], 54)]
        opad == [i \in 1..BlockSize |-> Xor8(k[i], 92)]
    IN  Sha256(opad \o Sha256(ipad \o message))

\* hmac.Equal: equal lengths and equal bytes (in constant time).
hmacEqual(a, b) == Len(a) = Len(b) /\ \A i \in 1..Len(a) : a[i] = b[i]

(***************************************************************************)
(* Validator                                                               *)
(***************************************************************************)

\* A *time.Duration is modelled as a sequence: empty for nil, <<d>> for a
\* pointer to the duration d.
Nil == <<>>
Ptr(d) == <<d>>

\* ValidityWindow's initial value, 5 * time.Second.
DefaultValidityWindow == Duration(5, 0)

\* A mutant of validTimestampReads: the upper bound of the window is included.
validTimestampReadsClosed(ts, now, isNil, half, whole) ==
    LET t == stringToTime(ts)
    IN  IF ~t.ok THEN FALSE
        ELSE IF isNil THEN TRUE
        ELSE LET diff == Sub(Add(now, Half(half)), t.t)
             IN  (Before(diff, whole) \/ diff = whole) /\ Before(Duration(0, 0), diff)

\* validTimestamp with the two reads of *v.Period (lines 68 and 69) kept
\* apart: half is the value the first read yields, whole the second.
validTimestampReads(ts, now, isNil, half, whole) ==
    LET t == stringToTime(ts)
    IN  IF ~t.ok THEN FALSE
        ELSE IF isNil THEN TRUE
        ELSE LET diff == Sub(Add(now, Half(half)), t.t)
             IN  Before(diff, whole) /\ Before(Duration(0, 0), diff)

\* A mutant of validTimestamp: a nil Period falls back to the default window.
validTimestampNilDefault(ts, now, period) ==
    IF period = Nil
      THEN validTimestampReads(ts, now, FALSE, DefaultValidityWindow, DefaultValidityWindow)
      ELSE validTimestampReads(ts, now, FALSE, period[1], period[1])

\* validTimestamp at time now, for a validator whose Period is period (Nil or
\* Ptr(d)) and is not written during the call.
validTimestamp(ts, now, period) ==
    IF period = Nil THEN validTimestampReads(ts, now, TRUE, Duration(0, 0), Duration(0, 0))
    ELSE validTimestampReads(ts, now, FALSE, period[1], period[1])

\* A mutant of calculateSignature: the body is left out of the message.
calculateSignatureNoBody(key, ts, qp, b) ==
    hMACSHA256(ts \o <<10>> \o qp \o <<10>> \o Sha256(<<>>), key)

\* calculateSignature: HMAC_SHA_256(ts + \n + qp + \n + SHA_256_SUM(b), key)
calculateSignature(key, ts, qp, b) ==
    hMACSHA256(ts \o <<10>> \o qp \o <<10>> \o Sha256(b), key)

\* A mutant of validSignature: the received signature is compared as it
\* came, without decoding it.
validSignatureUndecoded(key, ts, rqp, b, rs) ==
    LET uqp == urlParse(<<63>> \o rqp)
    IN  IF ~uqp.ok THEN FALSE
        ELSE hmacEqual(rs, calculateSignature(key, ts, Encode(Query(uqp)), b))

\* A mutant of validSignature: the query string is signed as it came, not
\* re-encoded.
validSignatureRawQuery(key, ts, rqp, b, rs) ==
    LET uqp == urlParse(<<63>> \o rqp)
        drs == B64Decode(rs)
    IN  IF ~uqp.ok THEN FALSE
        ELSE IF ~drs.ok THEN FALSE
        ELSE hmacEqual(drs.val, calculateSignature(key, ts, uqp.RawQuery, b))

\* validSignature: the query is parsed and re-encoded, the expected
\* signature computed and compared to the decoded one received.
validSignature(key, ts, rqp, b, rs) ==
    LET uqp == urlParse(<<63>> \o rqp)
        drs == B64Decode(rs)
    IN  IF ~uqp.ok THEN FALSE
        ELSE IF ~drs.ok THEN FALSE
        ELSE hmacEqual(drs.val, calculateSignature(key, ts, Encode(Query(uqp)), b))

(***************************************************************************)
(* State                                                                   *)
(***************************************************************************)

VARIABLES
    tIn,            \* validTimestamp alone: its inputs [ts, now, period]
    tOut,           \* ... and its result [done, ok]
    sIn,            \* validSignature alone: the validator's key and the call's ts, rqp, b, rs
    signed,         \* what the sender signed: [key, ts, rqp, qp, b]
    sPc,            \* "new", "signed", "changed", "verified"
    change,         \* what was changed after signing: "none", "key", "ts", "query", "body", "order"
    sOut,           \* the result of validSignature
    sAsSigned,      \* the result of validSignature for the request as it was signed
    refused,        \* the kinds of change after which the signature was refused
    ValidityWindow, \* the package variable
    store,          \* a store to ValidityWindow in flight: Nil or Ptr(w)
    v,              \* the validator: [SigningKey, Period, own]
    built,          \* the window the validator was constructed with: Nil or Ptr(w)
    sent,           \* the message a sender made: [key, ts, rqp, data, signed, rs]
    r,              \* the request being handled: [Header, RawQuery, Host, Body]
    orig,           \* the request as it arrived
    call,           \* the locals of the ValidRequest in progress: [ts, rs, b]
    at,             \* time.Now() as the last ValidRequest read it
    pc,             \* "start", "ready", "sent", "received", "reading", "read",
                    \* "returned", "served"
    err,            \* what ValidRequest returned: NoError or the error's text
    resp,           \* the response the wrapper wrote: [status, body]
    calls,          \* the calls made for this request, in order
    handlerBody     \* what the downstream handler read from r.Body

timeVars == <<tIn, tOut>>
sigVars  == <<sIn, signed, sPc, change, sOut, sAsSigned, refused>>
reqVars  == <<ValidityWindow, store, v, built, sent, r, orig, call, at, pc, err,
              resp, calls, handlerBody>>
vars     == <<tIn, tOut, sIn, signed, sPc, change, sOut, sAsSigned, refused,
              ValidityWindow, store, v, built, sent, r, orig, call, at, pc, err, resp,
              calls, handlerBody>>

(***************************************************************************)
(* Requests                                                                *)
(***************************************************************************)

tsHeader == "MessageBird-Request-Timestamp"
sHeader  == "MessageBird-Signature"

\* r.Header.Get(name): the value of the header, "" when it is absent.
HeaderGet(h, name) == IF name \in DOMAIN h THEN h[name] ELSE <<>>

\* A body stream: the bytes data, pos of them read so far, and failAt, the
\* position at which a read returns an error (NoFault for a stream that ends
\* with io.EOF).
NoFault == 0 - 1
NewBuffer(b) == [data |-> b, pos |-> 0, failAt |-> NoFault]

\* ioutil.ReadAll(body): the bytes up to the end, or up to the fault; the
\* error, if the read failed; the stream afterwards.
ReadAll(body) ==
    IF body.failAt # NoFault /\ body.failAt >= body.pos
      THEN [b    |-> SubSeq(body.data, body.pos + 1, body.failAt),
            fail |-> TRUE,
            rest |-> [body EXCEPT !.pos = body.failAt]]
      ELSE [b    |-> SubSeq(body.data, body.pos + 1, Len(body.data)),
            fail |-> FALSE,
            rest |-> [body EXCEPT !.pos = Len(body.data)]]

\* A nil error.
NoError == <<>>

\* fmt.Errorf("Unknown host: %s", host)
UnknownHost(host) ==
    Str(<<"U", "n", "k", "n", "o", "w", "n", "SP", "h", "o", "s", "t", ":", "SP">>) \o host

\* A mutant of MissingHeaderError: the error says what is missing.
MissingHeaderErrorSpecific(req) == Str(<<"n", "o", "SP", "h", "o", "s", "t">>)

\* The error of line 110 (a header is missing) and of line 114 (the
\* timestamp or the signature is not valid).
MissingHeaderError(req) == UnknownHost(req.Host)
InvalidError(req) == UnknownHost(req.Host)

\* ValidRequest on a validator with SigningKey key, at time now; isNil says
\* whether Period is nil, half and whole are what the two reads of *Period
\* yield.  The result is the error and the request's body afterwards.
ValidRequest(key, isNil, half, whole, req, now) ==
    LET ts == HeaderGet(req.Header, tsHeader)
        rs == HeaderGet(req.Header, sHeader)
        rd == ReadAll(req.Body)
    IN  IF ts = <<>> \/ rs = <<>>
          THEN [err |-> MissingHeaderError(req), Body |-> req.Body]
        ELSE IF \/ validTimestampReads(ts, now, isNil, half, whole) = FALSE
                \/ validSignature(key, ts, req.RawQuery, rd.b, rs) = FALSE
          THEN [err |-> InvalidError(req), Body |-> rd.rest]
        ELSE [err |-> NoError, Body |-> NewBuffer(rd.b)]

\* A mutant of Authorized: the result of ValidRequest is ignored.
AuthorizedAlways(e) == TRUE

\* The wrapper's test of line 127: whether the request goes on to the handler.
Authorized(e) == e = NoError

\* http.Error(w, "", http.StatusUnauthorized): the status and the body, the
\* empty message and a newline.
StatusUnauthorized == 401
Unauthorized == [status |-> StatusUnauthorized, body |-> <<10>>]
NoResponse == [status |-> 0, body |-> <<>>]

NoValidator == [SigningKey |-> <<>>, Period |-> "nil", own |-> Duration(0, 0)]
NoCall == [ts |-> <<>>, rs |-> <<>>, b |-> <<>>]
NoRequest ==
    [Header |-> [h \in {} |-> <<>>], RawQuery |-> <<>>, Host |-> <<>>,
     Body |-> NewBuffer(<<>>)]
NoMessage ==
    [key |-> <<>>, ts |-> <<>>, rqp |-> <<>>, data |-> <<>>, signed |-> <<>>,
     rs |-> <<>>]

ReqIdle ==
    /\ ValidityWindow = DefaultValidityWindow
    /\ store = Nil
    /\ v = NoValidator
    /\ built = Nil
    /\ sent = NoMessage
    /\ r = NoRequest
    /\ orig = NoRequest
    /\ call = NoCall
    /\ at = Duration(0, 0)
    /\ pc = "off"
    /\ err = NoError
    /\ resp = NoResponse
    /\ calls = <<>>
    /\ handlerBody = <<>>

(***************************************************************************)
(* validTimestamp on its own                                               *)
(***************************************************************************)

\* The clock readings tried lie on a grid of TicksPerSecond ticks to a
\* second, up to MaxNow ticks after the epoch, and up to two nanoseconds
\* about those; MaxTsLen is the longest timestamp string.
TicksPerSecond == 2
MaxTsLen == 2
MaxNow == 16

\* The instant k ticks and e nanoseconds after the epoch.
Clock(k, e) ==
    Add(Duration(k \div TicksPerSecond,
                 (k % TicksPerSecond) * (NanosPerSecond \div TicksPerSecond)),
        Duration(0, e))

\* One tick.
Tick == Clock(1, 0)

ClockNanos == {0 - 1, 0, 1, 2}

TsAlphabet == {Ord("0"), Ord("1"), Ord("5"), Ord("-"), Ord("+"), Ord("x")}

RECURSIVE StringsUpTo(_, _)
StringsUpTo(alphabet, n) ==
    IF n = 0 THEN {<<>>}
    ELSE LET shorter == StringsUpTo(alphabet, n - 1)
         IN  shorter \cup {Append(x, c) : x \in shorter, c \in alphabet}

TimestampStrings == StringsUpTo(TsAlphabet, MaxTsLen)

\* Period: nil, the default window, and windows that are zero, negative
\* (-3 ns), one nanosecond, three nanoseconds, half a second and a second
\* and a half.
Periods ==
    { Nil, Ptr(DefaultValidityWindow), Ptr(Duration(0, 0)), Ptr(Duration(0, 0 - 3)),
      Ptr(Duration(0, 1)), Ptr(Duration(0, 3)), Ptr(Clock(1, 0)), Ptr(Clock(3, 0)) }

NoResult == [done |-> FALSE, ok |-> FALSE]

SigIdle ==
    /\ sIn = [key |-> <<>>, ts |-> <<>>, rqp |-> <<>>, b |-> <<>>, rs |-> <<>>]
    /\ signed = [key |-> <<>>, ts |-> <<>>, rqp |-> <<>>, qp |-> <<>>, b |-> <<>>]
    /\ sPc = "off"
    /\ change = "none"
    /\ sOut = NoResult
    /\ sAsSigned = NoResult
    /\ refused = {}

TimeIdle ==
    /\ tIn = [ts |-> <<>>, now |-> Duration(0, 0), period |-> Nil]
    /\ tOut = NoResult

TimeInit ==
    /\ tIn \in [ts : TimestampStrings,
                now : {Clock(k, e) : k \in 0..MaxNow, e \in ClockNanos},
                period : Periods]
    /\ tOut = NoResult
    /\ SigIdle
    /\ ReqIdle

\* v.validTimestamp(ts) at time.Now() = now.
TimeCheck ==
    /\ ~tOut.done
    /\ tOut' = [done |-> TRUE, ok |-> validTimestamp(tIn.ts, tIn.now, tIn.period)]
    /\ UNCHANGED <<tIn, sigVars, reqVars>>

\* The clock advances; the same timestamp is then checked again.
TimeTick ==
    /\ Before(tIn.now, Clock(MaxNow, 0))
    /\ tIn' = [tIn EXCEPT !.now = Add(@, Tick)]
    /\ tOut' = NoResult
    /\ UNCHANGED <<sigVars, reqVars>>

TimeNext == TimeCheck \/ TimeTick

SpecTime == TimeInit /\ [][TimeNext]_vars

(***************************************************************************)
(* validSignature on its own: a sender signs, something may change on the  *)
(* way, the validator verifies.                                            *)
(***************************************************************************)

\* Most '&'-separated pieces of a query string and longest free-form query
\* string.
MaxPieces == 2
MaxRawLen == 2

Keys       == {Str(<<"k">>), Str(<<"k", "z">>)}
Timestamps == {Str(<<"1", "5">>)}
Bodies     == {<<>>, Str(<<"a", "b">>)}

\* Pieces of a query string: plain pairs, a repeated key, a key spelled with
\* an escape, a piece with a fragment mark.
Pieces ==
    { Str(<<"a", "=", "1">>), Str(<<"a", "=", "2">>), Str(<<"b", "=", "2">>),
      Str(<<"%", "6", "1", "=", "3">>), Str(<<"b", "#">>) }

RawAlphabet ==
    {Ord("a"), Ord("="), Ord("%"), Ord(";"), Ord("#"), Ord("LF")}

\* strings.Join(ps, "&")
RECURSIVE Join(_)
Join(ps) ==
    IF ps = <<>> THEN <<>>
    ELSE IF Len(ps) = 1 THEN ps[1]
    ELSE ps[1] \o <<38>> \o Join(Tail(ps))

\* strings.Split(q, "&")
RECURSIVE Split(_)
Split(q) ==
    LET c == Cut(q, 38)
    IN  IF c.found THEN <<c.before>> \o Split(c.after) ELSE <<q>>

RECURSIVE SeqsUpTo(_, _)
SeqsUpTo(S, n) ==
    IF n = 0 THEN {<<>>}
    ELSE LET shorter == SeqsUpTo(S, n - 1)
         IN  shorter \cup {Append(x, e) : x \in shorter, e \in S}

RawQueries ==
    {Join(ps) : ps \in SeqsUpTo(Pieces, MaxPieces)} \cup StringsUpTo(RawAlphabet, MaxRawLen)

\* The canonical form of a raw query string: its query component (up to a
\* '#'), parsed and re-encoded sorted by key, as lines 87 and 91 compute it.
CanonicalQuery(rqp) == Encode(parseQuery(EmptyValues, Cut(rqp, 35).before))

\* The query string of the requests in which a byte is changed, and the
\* values a changed byte may take.
ChangedQueries == {Str(<<"b", "=", "2", "&", "a", "=", "1">>)}
ChangedBytes == {Ord("1"), Ord("LF")}

\* What is signed: every query string under one key and with an empty
\* body, and the requests in which a byte is changed under every key and
\* with every body.
SigInputs ==
    [key : {Str(<<"k">>)}, ts : Timestamps, rqp : RawQueries, b : {<<>>}, rs : {<<>>}]
      \cup [key : Keys, ts : Timestamps, rqp : ChangedQueries, b : Bodies, rs : {<<>>}]

Orderings(n) == {f \in [1..n -> 1..n] : \A i, j \in 1..n : f[i] = f[j] => i = j}

\* The pieces ps in the order f.
Permuted(ps, f) == [i \in 1..Len(ps) |-> ps[f[i]]]

SigInit ==
    /\ sIn \in SigInputs
    /\ signed = [key |-> <<>>, ts |-> <<>>, rqp |-> <<>>, qp |-> <<>>, b |-> <<>>]
    /\ sPc = "new"
    /\ change = "none"
    /\ sOut = NoResult
    /\ sAsSigned = NoResult
    /\ refused = {}
    /\ TimeIdle
    /\ ReqIdle

\* The sender computes the signature of the request with calculateSignature
\* over the canonical query string, and sends it base64-encoded.
SigSign ==
    /\ sPc = "new"
    /\ LET qp == CanonicalQuery(sIn.rqp)
       IN  /\ signed' = [key |-> sIn.key, ts |-> sIn.ts, rqp |-> sIn.rqp,
                         qp |-> qp, b |-> sIn.b]
           /\ sIn' = [sIn EXCEPT
                        !.rs = B64Encode(calculateSignature(sIn.key, sIn.ts, qp, sIn.b))]
    /\ sPc' = "signed"
    /\ UNCHANGED <<change, sOut, sAsSigned, refused, timeVars, reqVars>>

\* The request has been verified as it was signed; then one byte of the
\* validator's key, of the timestamp, of the body or of the raw query string
\* is not the one that was signed.
SigChangeByte(field, what) ==
    /\ sPc = "verified"
    /\ change = "none"
    /\ sIn.rqp \in ChangedQueries
    /\ \E i \in 1..Len(sIn[field]), c \in ChangedBytes :
          /\ sIn[field][i] # c
          /\ sIn' = [sIn EXCEPT ![field][i] = c]
    /\ sPc' = "changed"
    /\ change' = what
    /\ sOut' = NoResult
    /\ UNCHANGED <<signed, sAsSigned, refused, timeVars, reqVars>>

SigChangeKey   == SigChangeByte("key", "key")
SigChangeTs    == SigChangeByte("ts", "ts")
SigChangeBody  == SigChangeByte("b", "body")
SigChangeQuery == SigChangeByte("rqp", "query")

\* An intermediary reorders the pieces of the query string.
SigReorder ==
    /\ sPc = "verified"
    /\ change = "none"
    /\ refused = {}
    /\ LET ps == Split(sIn.rqp)
       IN  \E f \in Orderings(Len(ps)) :
              /\ Permuted(ps, f) # ps
              /\ sIn' = [sIn EXCEPT !.rqp = Join(Permuted(ps, f))]
    /\ sPc' = "changed"
    /\ change' = "order"
    /\ sOut' = NoResult
    /\ UNCHANGED <<signed, sAsSigned, refused, timeVars, reqVars>>

\* v.validSignature(ts, rqp, b, rs) on a validator with SigningKey = key.
SigVerify ==
    /\ sPc \in {"signed", "changed"}
    /\ sOut' = [done |-> TRUE,
                ok |-> validSignature(sIn.key, sIn.ts, sIn.rqp, sIn.b, sIn.rs)]
    /\ sAsSigned' = IF sPc = "signed" THEN sOut' ELSE sAsSigned
    /\ refused' = IF sPc = "changed" /\ ~sOut'.ok /\ change # "order"
                     THEN refused \cup {change}
                     ELSE refused
    /\ sPc' = "verified"
    /\ UNCHANGED <<sIn, signed, change, timeVars, reqVars>>

\* The changed byte is put back: the request is again the one that was
\* signed and verified, and another byte may be changed.
SigRestore ==
    /\ sPc = "verified"
    /\ change \in {"key", "ts", "query", "body"}
    /\ sIn' = [sIn EXCEPT !.key = signed.key, !.ts = signed.ts, !.rqp = signed.rqp,
                          !.b = signed.b]
    /\ change' = "none"
    /\ sOut' = sAsSigned
    /\ UNCHANGED <<signed, sPc, sAsSigned, refused, timeVars, reqVars>>

SigNext ==
    \/ SigSign
    \/ SigChangeKey
    \/ SigChangeTs
    \/ SigChangeBody
    \/ SigChangeQuery
    \/ SigReorder
    \/ SigVerify
    \/ SigRestore

SpecSig == SigInit /\ [][SigNext]_vars

(***************************************************************************)
(* Requests through ValidRequest and the Validate wrapper                  *)
(***************************************************************************)

\* Latest clock reading (in ticks after the epoch) a call may see.
MaxClock == 1

ValidatorKey == Str(<<"k">>)
OtherKey     == Str(<<"s">>)

\* The value another party assigns to ValidityWindow.
AssignedWindows == {Duration(0, 0)}

\* A private window for Validator{Period: &d}.
OwnWindow == Duration(3, 0)

\* Timestamp headers: one second and nine seconds after the epoch, and one
\* that is no number.
ReqTimestamps == {Str(<<"1">>), Str(<<"9">>), Str(<<"x">>)}
ReqQueries    == {Str(<<"b", "=", "2", "&", "a", "=", "1">>)}
ReqBodies     == {Str(<<"a", "b">>)}
ReqHosts      == {Str(<<"a">>), Str(<<"b">>)}

\* The places inside a body at which a read can fail.
Inside(data) == 1..(Len(data) - 1)

\* The body streams of a body: one that ends, and one for each place inside
\* it at which a read can fail.
BodyStreams(data) ==
    {[data |-> data, pos |-> 0, failAt |-> f] : f \in {NoFault} \cup Inside(data)}

\* The signature header a sender with the key key computes for ts, the query
\* string and the body b.
SignatureFor(key, ts, rqp, b) ==
    B64Encode(calculateSignature(key, ts, CanonicalQuery(rqp), b))

\* The headers: each of the two present or absent.
Headers(ts, rs) ==
    { [h \in names |-> IF h = tsHeader THEN ts ELSE rs] :
          names \in SUBSET {tsHeader, sHeader} }

Init ==
    /\ ValidityWindow = DefaultValidityWindow
    /\ store = Nil
    /\ v = NoValidator
    /\ built = Nil
    /\ sent = NoMessage
    /\ r = NoRequest
    /\ orig = NoRequest
    /\ call = NoCall
    /\ at = Duration(0, 0)
    /\ pc = "start"
    /\ err = NoError
    /\ resp = NoResponse
    /\ calls = <<>>
    /\ handlerBody = <<>>
    /\ TimeIdle
    /\ SigIdle

\* NewValidator(signingKey): Period points to the package variable.
NewValidator ==
    /\ pc = "start"
    /\ v' = [SigningKey |-> ValidatorKey, Period |-> "&ValidityWindow",
             own |-> Duration(0, 0)]
    /\ built' = Ptr(ValidityWindow)
    /\ pc' = "ready"
    /\ UNCHANGED <<ValidityWindow, store, sent, r, orig, call, at, err, resp, calls,
                   handlerBody, timeVars, sigVars>>

\* &Validator{SigningKey: key, Period: p} with p nil or a window of its own.
ValidatorLiteral ==
    /\ pc = "start"
    /\ \E p \in {"nil", "&own"} :
          /\ v' = [SigningKey |-> ValidatorKey, Period |-> p, own |-> OwnWindow]
          /\ built' = IF p = "nil" THEN Nil ELSE Ptr(OwnWindow)
    /\ pc' = "ready"
    /\ UNCHANGED <<ValidityWindow, store, sent, r, orig, call, at, err, resp, calls,
                   handlerBody, timeVars, sigVars>>

\* Another goroutine assigns to ValidityWindow.  Nothing orders the store
\* with the reads of validTimestamp: while it is in flight a read yields the
\* old value or the new one.  (A validator with a nil Period reads no
\* window.)
AssignBegin ==
    /\ pc # "start"
    /\ v.Period # "nil"
    /\ store = Nil
    /\ \E w \in AssignedWindows : w # ValidityWindow /\ store' = Ptr(w)
    /\ UNCHANGED <<ValidityWindow, v, built, sent, r, orig, call, at, pc, err, resp,
                   calls, handlerBody, timeVars, sigVars>>

AssignEnd ==
    /\ store # Nil
    /\ ValidityWindow' = store[1]
    /\ store' = Nil
    /\ UNCHANGED <<v, built, sent, r, orig, call, at, pc, err, resp, calls,
                   handlerBody, timeVars, sigVars>>

\* A sender holding the validator's key or another one makes a message: a
\* timestamp, a query string, a body, and the signature of the body or of
\* its bytes up to a place inside it.
Send ==
    /\ pc = "ready"
    /\ \E key \in {ValidatorKey, OtherKey}, ts \in ReqTimestamps, q \in ReqQueries,
          data \in ReqBodies :
          \E n \in {Len(data)} \cup Inside(data) :
             sent' = [key |-> key, ts |-> ts, rqp |-> q, data |-> data,
                      signed |-> SubSeq(data, 1, n),
                      rs |-> SignatureFor(key, ts, q, SubSeq(data, 1, n))]
    /\ pc' = "sent"
    /\ UNCHANGED <<ValidityWindow, store, v, built, r, orig, call, at, err, resp,
                   calls, handlerBody, timeVars, sigVars>>

\* The message arrives as a request: with or without each of the two
\* headers, the signature header as sent or one that is not base64, and a
\* body stream that ends or fails.
Receive ==
    /\ pc = "sent"
    /\ \E rs \in {sent.rs, Str(<<"!">>)}, host \in ReqHosts,
          body \in BodyStreams(sent.data) :
          \E h \in Headers(sent.ts, rs) :
             LET req == [Header |-> h, RawQuery |-> sent.rqp, Host |-> host,
                         Body |-> body]
             IN  r' = req /\ orig' = req
    /\ pc' = "received"
    /\ err' = NoError
    /\ resp' = NoResponse
    /\ calls' = <<>>
    /\ handlerBody' = <<>>
    /\ UNCHANGED <<ValidityWindow, store, v, built, sent, call, at, timeVars,
                   sigVars>>

\* v.ValidRequest(r), called directly or by the wrapper's handler (line
\* 127), up to the read of the body: the two headers are read (lines 107
\* and 108), and a call without one of them returns (lines 109 to 111).
CallValidRequest ==
    /\ pc = "received"
    /\ calls' = Append(calls, "ValidRequest")
    /\ LET ts == HeaderGet(r.Header, tsHeader)
           rs == HeaderGet(r.Header, sHeader)
       IN  IF ts = <<>> \/ rs = <<>>
             THEN /\ err' = MissingHeaderError(r)
                  /\ pc' = "returned"
                  /\ call' = call
             ELSE /\ call' = [ts |-> ts, rs |-> rs, b |-> <<>>]
                  /\ pc' = "reading"
                  /\ err' = err
    /\ UNCHANGED <<ValidityWindow, store, v, built, sent, r, orig, at, resp,
                   handlerBody, timeVars, sigVars>>

\* One Read of ioutil.ReadAll(r.Body) (line 112), for which the call waits:
\* the next byte of the body, or its end, or an error, which is dropped.
ReadBody ==
    /\ pc = "reading"
    /\ IF r.Body.pos = r.Body.failAt \/ r.Body.pos >= Len(r.Body.data)
         THEN /\ pc' = "read"
              /\ UNCHANGED <<r, call>>
         ELSE /\ call' = [call EXCEPT !.b = Append(@, r.Body.data[r.Body.pos + 1])]
              /\ r' = [r EXCEPT !.Body.pos = @ + 1]
              /\ pc' = pc
    /\ UNCHANGED <<ValidityWindow, store, v, built, sent, orig, at, err, resp, calls,
                   handlerBody, timeVars, sigVars>>

\* What a read of *v.Period may yield.
PeriodReads ==
    IF v.Period = "&own" THEN {v.own}
    ELSE IF v.Period = "nil" THEN {Duration(0, 0)}
    ELSE {ValidityWindow} \cup {store[i] : i \in 1..Len(store)}

\* The rest of the call (lines 113 to 117): validTimestamp reads the clock
\* and the window, validSignature checks the bytes that were read, and the
\* call returns the error, or replaces the body and returns nil.
ReturnValidRequest ==
    /\ pc = "read"
    /\ \E k \in 0..MaxClock, half \in PeriodReads, whole \in PeriodReads :
          \E valid \in
               { /\ validTimestampReads(call.ts, Clock(k, 0), v.Period = "nil", half, whole)
                 /\ validSignature(v.SigningKey, call.ts, r.RawQuery, call.b, call.rs) } :
              /\ err' = IF valid THEN NoError ELSE InvalidError(r)
              /\ r' = IF valid THEN [r EXCEPT !.Body = NewBuffer(call.b)] ELSE r
              /\ at' = Clock(k, 0)
    /\ pc' = "returned"
    /\ UNCHANGED <<ValidityWindow, store, v, built, sent, orig, call, resp, calls,
                   handlerBody, timeVars, sigVars>>

\* The wrapper, after ValidRequest has returned: http.Error and return
\* (lines 128 and 129),
WrapperReject ==
    /\ pc = "returned"
    /\ ~Authorized(err)
    /\ resp' = Unauthorized
    /\ calls' = Append(calls, "http.Error")
    /\ pc' = "served"
    /\ UNCHANGED <<ValidityWindow, store, v, built, sent, r, orig, call, at, err,
                   handlerBody, timeVars, sigVars>>

\* ... or h.ServeHTTP(w, r) (line 131); the handler reads the body.
WrapperDelegate ==
    /\ pc = "returned"
    /\ Authorized(err)
    /\ calls' = Append(calls, "h.ServeHTTP")
    /\ handlerBody' = ReadAll(r.Body).b
    /\ r' = [r EXCEPT !.Body = ReadAll(r.Body).rest]
    /\ pc' = "served"
    /\ UNCHANGED <<ValidityWindow, store, v, built, sent, orig, call, at, err, resp,
                   timeVars, sigVars>>

\* The request is done with, after a direct call or after the wrapper; the
\* next one may be sent.
Done ==
    /\ pc \in {"returned", "served"}
    /\ pc' = "ready"
    /\ sent' = NoMessage
    /\ r' = NoRequest
    /\ orig' = NoRequest
    /\ call' = NoCall
    /\ at' = Duration(0, 0)
    /\ err' = NoError
    /\ resp' = NoResponse
    /\ calls' = <<>>
    /\ handlerBody' = <<>>
    /\ UNCHANGED <<ValidityWindow, store, v, built, timeVars, sigVars>>

Next ==
    \/ NewValidator
    \/ ValidatorLiteral
    \/ AssignBegin
    \/ AssignEnd
    \/ Send
    \/ Receive
    \/ CallValidRequest
    \/ ReadBody
    \/ ReturnValidRequest
    \/ WrapperReject
    \/ WrapperDelegate
    \/ Done

Spec == Init /\ [][Next]_vars

(***************************************************************************)
(* Properties of validTimestamp                                            *)
(***************************************************************************)

\* A decimal integer as written: an optional sign and one or more digits.
\* (Every such string of the lengths tried here is within int64.)
IsDecimal(s) ==
    LET k == IF s # <<>> /\ s[1] \in {43, 45} THEN 1 ELSE 0
    IN  Len(s) > k /\ \A i \in (k + 1)..Len(s) : s[i] \in 48..57

RECURSIVE Pow10(_)
Pow10(n) == IF n = 0 THEN 1 ELSE 10 * Pow10(n - 1)

RECURSIVE SumTo(_, _)
SumTo(f, n) == IF n = 0 THEN 0 ELSE f[n] + SumTo(f, n - 1)

\* The integer a decimal string denotes.
DecimalValue(s) ==
    LET k   == IF s[1] \in {43, 45} THEN 1 ELSE 0
        n   == Len(s) - k
        mag == SumTo([i \in 1..n |-> (s[k + i] - 48) * Pow10(n - i)], n)
    IN  IF s[1] = 45 THEN -mag ELSE mag

\* The instant of the decimal string s, taken as seconds after the epoch.
UnixSeconds(s) == Duration(DecimalValue(s), 0)

\* C3: with a window W configured, validTimestamp(ts) is true exactly when ts
\* is a decimal integer t (in seconds) and 0 < (now + W/2) - t < W, both
\* bounds strict: a timestamp with diff = 0 or diff = W is rejected, and a
\* timestamp equal to now, whose diff is W/2, is accepted when W/2 is above 0,
\* the bound just named (as it is for the 5 s window of the spec's boundary
\* case; Go's W/2 truncates, so it is 0 for a window of one nanosecond).
FreshnessWindow ==
    (tOut.done /\ tIn.period # Nil) =>
        LET W    == tIn.period[1]
            zero == Duration(0, 0)
            diff == Sub(Add(tIn.now, Half(W)), UnixSeconds(tIn.ts))
        IN  /\ tOut.ok <=> (IsDecimal(tIn.ts) /\ Before(zero, diff) /\ Before(diff, W))
            /\ (IsDecimal(tIn.ts) /\ (diff = zero \/ diff = W)) => ~tOut.ok
            /\ ( /\ IsDecimal(tIn.ts)
                 /\ Before(zero, Half(W))
                 /\ UnixSeconds(tIn.ts) = tIn.now ) => tOut.ok

\* A timestamp equal to now was checked under the default window and accepted.
FreshnessWindowWitness ==
    /\ tOut.done
    /\ tIn.period = Ptr(DefaultValidityWindow)
    /\ IsDecimal(tIn.ts)
    /\ UnixSeconds(tIn.ts) = tIn.now
    /\ tOut.ok

\* C8: with Period nil, validTimestamp accepts every string that is a decimal
\* integer, whatever the time, and rejects every other string.
NilPeriodAcceptsParsed ==
    (tOut.done /\ tIn.period = Nil) => (tOut.ok <=> IsDecimal(tIn.ts))

\* A timestamp more than a whole default window away from now was accepted
\* with Period nil.
NilPeriodAcceptsParsedWitness ==
    /\ tOut.done
    /\ tIn.period = Nil
    /\ IsDecimal(tIn.ts)
    /\ Before(DefaultValidityWindow, Sub(UnixSeconds(tIn.ts), tIn.now))
    /\ tOut.ok

(***************************************************************************)
(* Properties of validSignature                                            *)
(***************************************************************************)

\* x and y have the same length and differ in exactly one byte.
DiffersInOneByte(x, y) ==
    /\ Len(x) = Len(y)
    /\ Cardinality({i \in 1..Len(x) : x[i] # y[i]}) = 1

\* url.Parse accepts "?" + q: no control byte before the first '#', and only
\* well-formed escapes after it.
ParseAccepts(q) ==
    LET f == Cut(q, 35)
    IN  /\ \A i \in 1..Len(f.before) : f.before[i] >= 32 /\ f.before[i] # 127
        /\ \A i \in 1..Len(f.after) :
              f.after[i] = 37 =>
                  /\ i + 2 <= Len(f.after)
                  /\ IsHex(f.after[i + 1])
                  /\ IsHex(f.after[i + 2])

\* C1 as stated: for every K, T, Q and B, the signature computed over the
\* canonical form of Q verifies.
RoundTripEveryQuery ==
    (sPc = "verified" /\ change = "none") => sOut.ok

\* C1, amended: the signature computed over the canonical form of Q
\* verifies for every K, T, B and every Q that url.Parse accepts.
RoundTripParsedQuery ==
    (sPc = "verified" /\ change = "none" /\ ParseAccepts(sIn.rqp)) => sOut.ok

\* A signature over a query string that canonicalization rewrote verified.
RoundTripWitness ==
    /\ sPc = "verified"
    /\ change = "none"
    /\ signed.qp # sIn.rqp
    /\ signed.qp # <<>>
    /\ sOut.ok

\* C2: when exactly one of the key, the timestamp, the canonical query string
\* and the body differs from what was signed, in a single byte and with the
\* same length, validSignature is false.
Sensitivity ==
    LET qp == CanonicalQuery(sIn.rqp)
        same  == <<sIn.key = signed.key, sIn.ts = signed.ts,
                   qp = signed.qp, sIn.b = signed.b>>
        flips == <<DiffersInOneByte(sIn.key, signed.key),
                   DiffersInOneByte(sIn.ts, signed.ts),
                   DiffersInOneByte(qp, signed.qp),
                   DiffersInOneByte(sIn.b, signed.b)>>
    IN  ( /\ sPc = "verified"
          /\ \E i \in 1..4 : flips[i] /\ \A j \in (1..4) \ {i} : same[j] )
        => ~sOut.ok

\* For one signed request, a changed byte of the key, of the timestamp and
\* of the body have each been refused, and now a byte of the canonical query
\* string differs and the signature is refused.
SensitivityWitness ==
    /\ sPc = "verified"
    /\ change = "query"
    /\ {"key", "ts", "body"} \subseteq refused
    /\ sAsSigned.ok
    /\ DiffersInOneByte(CanonicalQuery(sIn.rqp), signed.qp)
    /\ sIn.key = signed.key /\ sIn.ts = signed.ts /\ sIn.b = signed.b
    /\ ~sOut.ok

\* The keys of the pieces of a query string as written, in order.
KeySeq(q) == LET ps == Split(q) IN [i \in 1..Len(ps) |-> Cut(ps[i], 61).before]

\* The key of a piece, decoded.
PieceKey(piece) == QueryUnescape(Cut(piece, 61).before)

\* q2 is q1 with its pieces in another order.
IsReordering(q1, q2, f) ==
    /\ f \in Orderings(Len(Split(q1)))
    /\ q2 = Join(Permuted(Split(q1), f))

\* The order f keeps pieces of the same decoded key in their relative order.
KeepsOrderPerKey(q1, f) ==
    LET ps == Split(q1)
    IN  \A i, j \in 1..Len(ps) :
           (i < j /\ PieceKey(ps[f[i]]) = PieceKey(ps[f[j]])) => f[i] < f[j]

\* The signature that was sent was accepted for the query string as signed.
AcceptedAsSigned == sAsSigned.ok

\* C7 as stated: two query strings with the same key/value pairs in a
\* different key order have the same canonical form, and a signature accepted
\* for one is accepted for the other.
OrderIndependence ==
    ( /\ sPc = "verified"
      /\ change = "order"
      /\ KeySeq(sIn.rqp) # KeySeq(signed.rqp)
      /\ AcceptedAsSigned )
    => (CanonicalQuery(sIn.rqp) = signed.qp /\ sOut.ok)

\* C7, amended: the same holds when neither string has a fragment mark '#'
\* and the pairs of one (decoded) key stand in the same relative order in
\* both strings.
OrderIndependencePerKey ==
    ( /\ sPc = "verified"
      /\ change = "order"
      /\ AcceptedAsSigned
      /\ ~Contains(signed.rqp, 35)
      /\ \E f \in Orderings(Len(Split(signed.rqp))) :
            /\ IsReordering(signed.rqp, sIn.rqp, f)
            /\ KeepsOrderPerKey(signed.rqp, f) )
    => (CanonicalQuery(sIn.rqp) = signed.qp /\ sOut.ok)

\* "b=2&a=1" was signed, "a=1&b=2" arrived and was accepted.
OrderIndependenceWitness ==
    /\ sPc = "verified"
    /\ change = "order"
    /\ signed.rqp = Str(<<"b", "=", "2", "&", "a", "=", "1">>)
    /\ sIn.rqp = Str(<<"a", "=", "1", "&", "b", "=", "2">>)
    /\ sOut.ok

(***************************************************************************)
(* Properties of ValidRequest and Validate                                 *)
(***************************************************************************)

\* ValidRequest has returned for the request at hand.
Returned == pc \in {"returned", "served"}

\* Why a request is refused, in the order the checks are made; a signature
\* made with another key or over other bytes than the body read is a
\* mismatch.
Cause(req, key) ==
    LET ts == HeaderGet(req.Header, tsHeader)
        rs == HeaderGet(req.Header, sHeader)
    IN  IF tsHeader \notin DOMAIN req.Header THEN "MissingTimestamp"
        ELSE IF sHeader \notin DOMAIN req.Header THEN "MissingSignature"
        ELSE IF ~IsDecimal(ts) THEN "MalformedTimestamp"
        ELSE IF ~B64Decode(rs).ok THEN "MalformedSignature"
        ELSE IF sent.key # key \/ sent.signed # ReadAll(req.Body).b
          THEN "SignatureMismatch"
        ELSE "StaleOrFutureTimestamp"

\* C4: a refused request has the same outcome whatever the cause: the error
\* ValidRequest returns is the one generic error for that request, and the
\* wrapper's response is the one unauthorized response.
RejectionsIndistinguishable ==
    (Returned /\ err # NoError) =>
        /\ Cause(orig, v.SigningKey) \in
              {"MissingTimestamp", "MissingSignature", "MalformedTimestamp",
               "StaleOrFutureTimestamp", "MalformedSignature", "SignatureMismatch"}
        /\ err = UnknownHost(orig.Host)
        /\ pc = "served" => resp = [status |-> StatusUnauthorized, body |-> <<10>>]

\* The wrapper refused a request whose signature is not base64.
RejectionsIndistinguishableWitness ==
    /\ pc = "served"
    /\ err # NoError
    /\ Cause(orig, v.SigningKey) = "MalformedSignature"
    /\ resp.status = StatusUnauthorized

\* C5: in the wrapper the downstream handler runs only after ValidRequest
\* has returned success for the request, and at most once; when ValidRequest
\* fails the wrapper answers unauthorized and the handler never runs.
GatekeepingOrder ==
    /\ calls \in { <<>>,
                   <<"ValidRequest">>,
                   <<"ValidRequest", "h.ServeHTTP">>,
                   <<"ValidRequest", "http.Error">> }
    /\ calls = <<"ValidRequest", "h.ServeHTTP">> => (err = NoError /\ resp = NoResponse)
    /\ (pc = "served" /\ err # NoError) =>
          /\ calls = <<"ValidRequest", "http.Error">>
          /\ resp.status = StatusUnauthorized
    /\ (pc = "served" /\ err = NoError) => calls = <<"ValidRequest", "h.ServeHTTP">>

\* The wrapper passed an accepted request on to the handler.
GatekeepingOrderWitness ==
    /\ pc = "served"
    /\ calls = <<"ValidRequest", "h.ServeHTTP">>
    /\ orig.Body.data # <<>>

\* The body stream is at its start and yields exactly the bytes b.
YieldsFromStart(body, b) ==
    /\ body.pos = 0
    /\ ReadAll(body) = [b |-> b, fail |-> FALSE, rest |-> [body EXCEPT !.pos = Len(b)]]
    /\ Len(body.data) = Len(b)

\* C6: when ValidRequest returns success, the request's body is at its start
\* and yields exactly the bytes the body held before validation; the handler
\* behind the wrapper reads those bytes.
BodyReadableAgain ==
    /\ (pc = "returned" /\ err = NoError) =>
          YieldsFromStart(r.Body, orig.Body.data)
    /\ (pc = "served" /\ err = NoError) => handlerBody = orig.Body.data

\* C9: the verdict for a request depends only on the request, the time and
\* the configuration the validator was constructed with, whatever else
\* happens in the process.
VerdictFixedAtConstruction ==
    pc = "returned" =>
        LET w == IF built = Nil THEN Duration(0, 0) ELSE built[1]
        IN  err = ValidRequest(v.SigningKey, built = Nil, w, w, orig, at).err

\* C10: when reading the body fails before its end, ValidRequest returns
\* failure, whatever the headers.
BodyFaultRejected ==
    ( /\ Returned
      /\ orig.Body.failAt # NoFault
      /\ orig.Body.failAt < Len(orig.Body.data) )
    => err # NoError

=============================================================================
